---- MODULE Spec2Model ----
(***************************************************************************)
(* Model of multi_crop_app.py: the region collection (MainWindow.crops,    *)
(* CropInfo), the pointer state machine of CropGraphicsView, the selection *)
(* and its four handles, and the geometry of draw, move and resize.        *)
(*                                                                         *)
(* Coordinates are scene (= image) coordinates on a grid of 1/Unit scene    *)
(* units: the point <<x, y>> is the scene point (x/Unit, y/Unit), so that   *)
(* pointer positions between two pixels are part of the model.  A pointer   *)
(* event carries the scene point mapToScene(event.pos()) and, for panning,  *)
(* the view point event.pos(); both are inputs of the event.                *)
(* A Python exception that leaves a Qt event handler or slot ends the       *)
(* process (PyQt6 calls qFatal): running becomes FALSE, the state of the    *)
(* process is gone and nothing more happens.  Pens, cursor shapes and the   *)
(* texts of the status bar and of the list widget are presentation and are  *)
(* not part of the state.                                                   *)
(***************************************************************************)
EXTENDS Integers, Sequences, FiniteSets, TLC

\* ------------------------------------------------------------------ bounds
ImgW == 7
ImgH == 6
MaxCrops == 2
MaxView == 1
MaxPan == 1
MaxZoomOut == 0
MaxZoomIn == 2
FitScale == 80
FitTooLarge == 120
FitSmallMilli == 57
FitTooSmallMilli == 40
Margin == 2
Unit == 2

\* ------------------------------------------------- constants of the program
DrawMinSize == 5
ResizeMinSize == 1
HandleSize == 8
ZoomNum == 115
ZoomDen == 100
ZoomMinMilli == 50
ZoomMaxMilli == 100000

\* the two minimum sizes in grid steps
draw_min_size == DrawMinSize * Unit
resize_min_size == ResizeMinSize * Unit

\* InteractionMode
NONE == "NONE"
PANNING == "PANNING"
DRAWING == "DRAWING"
MOVING == "MOVING"
RESIZING == "RESIZING"
InteractionMode == {NONE, PANNING, DRAWING, MOVING, RESIZING}

\* HandlePosition (without NONE), in the order of the enum
TOP_LEFT == "TOP_LEFT"
TOP_RIGHT == "TOP_RIGHT"
BOTTOM_LEFT == "BOTTOM_LEFT"
BOTTOM_RIGHT == "BOTTOM_RIGHT"
HandlePosition == <<TOP_LEFT, TOP_RIGHT, BOTTOM_LEFT, BOTTOM_RIGHT>>
HandlePositions == {HandlePosition[i] : i \in 1..4}

LeftButton == "Left"
MiddleButton == "Middle"
RightButton == "Right"
Buttons == {LeftButton, MiddleButton, RightButton}

\* references to CropInfo objects: the id of a crop of the collection, NoCrop
\* for None, Stale for an object whose rect_item scene.clear() has deleted
NoCrop == 0
Stale == -1
NoHandle == [position |-> "NONE", parent |-> NoCrop]
NoPos == <<-99, -99>>
TempItem == -2

\* --------------------------------------------------------------- QRectF
Rect(x, y, w, h) == [x |-> x, y |-> y, w |-> w, h |-> h]
NullRect == Rect(0, 0, 0, 0)
QRectFpp(p, q) == Rect(p[1], p[2], q[1] - p[1], q[2] - p[2])
left(r) == r.x
top(r) == r.y
right(r) == r.x + r.w
bottom(r) == r.y + r.h
topLeft(r) == <<r.x, r.y>>
topRight(r) == <<r.x + r.w, r.y>>
bottomLeft(r) == <<r.x, r.y + r.h>>
bottomRight(r) == <<r.x + r.w, r.y + r.h>>
setLeft(r, v) == [r EXCEPT !.x = v, !.w = r.x + r.w - v]
setRight(r, v) == [r EXCEPT !.w = v - r.x]
setTop(r, v) == [r EXCEPT !.y = v, !.h = r.y + r.h - v]
setBottom(r, v) == [r EXCEPT !.h = v - r.y]
setWidth(r, v) == [r EXCEPT !.w = v]
setHeight(r, v) == [r EXCEPT !.h = v]
moveLeft(r, v) == [r EXCEPT !.x = v]
moveTop(r, v) == [r EXCEPT !.y = v]
moveRight(r, v) == [r EXCEPT !.x = v - r.w]
moveBottom(r, v) == [r EXCEPT !.y = v - r.h]
Min(a, b) == IF a < b THEN a ELSE b
Max(a, b) == IF a > b THEN a ELSE b
Abs(a) == IF a < 0 THEN -a ELSE a

normalized(r) ==
    LET nx == IF r.w < 0 THEN r.x + r.w ELSE r.x
        nw == IF r.w < 0 THEN -r.w ELSE r.w
        ny == IF r.h < 0 THEN r.y + r.h ELSE r.y
        nh == IF r.h < 0 THEN -r.h ELSE r.h
    IN  Rect(nx, ny, nw, nh)

\* QRectF::operator& : the null rectangle when either operand is empty on an
\* axis or the two do not overlap with positive extent
intersected(a, b) ==
    LET l1 == IF a.w < 0 THEN a.x + a.w ELSE a.x
        r1 == IF a.w < 0 THEN a.x ELSE a.x + a.w
        l2 == IF b.w < 0 THEN b.x + b.w ELSE b.x
        r2 == IF b.w < 0 THEN b.x ELSE b.x + b.w
        t1 == IF a.h < 0 THEN a.y + a.h ELSE a.y
        b1 == IF a.h < 0 THEN a.y ELSE a.y + a.h
        t2 == IF b.h < 0 THEN b.y + b.h ELSE b.y
        b2 == IF b.h < 0 THEN b.y ELSE b.y + b.h
    IN  IF l1 = r1 \/ l2 = r2 \/ l1 >= r2 \/ l2 >= r1 THEN NullRect
        ELSE IF t1 = b1 \/ t2 = b2 \/ t1 >= b2 \/ t2 >= b1 THEN NullRect
        ELSE Rect(Max(l1, l2), Max(t1, t2),
                  Min(r1, r2) - Max(l1, l2), Min(b1, b2) - Max(t1, t2))

\* QRectF::contains(QPointF): closed on all four edges
contains(r, p) ==
    /\ r.x <= p[1] /\ p[1] <= r.x + r.w
    /\ r.y <= p[2] /\ p[2] <= r.y + r.h

\* ------------------------------------------ CropGraphicsView.calculate_resized_rect
fixed_point(original_rect_scene, handle_pos) ==
    CASE handle_pos = TOP_LEFT -> bottomRight(original_rect_scene)
      [] handle_pos = TOP_RIGHT -> bottomLeft(original_rect_scene)
      [] handle_pos = BOTTOM_LEFT -> topRight(original_rect_scene)
      [] OTHER -> topLeft(original_rect_scene)

handle_corner(original_rect_scene, handle_pos) ==
    CASE handle_pos = TOP_LEFT -> topLeft(original_rect_scene)
      [] handle_pos = TOP_RIGHT -> topRight(original_rect_scene)
      [] handle_pos = BOTTOM_LEFT -> bottomLeft(original_rect_scene)
      [] OTHER -> bottomRight(original_rect_scene)

dragged_point_at_pointer(original_rect_scene, start_pos, current_pos, handle_pos) ==
    current_pos

\* lines 381-385: the dragged corner moved by the pointer's displacement
dragged_point(original_rect_scene, start_pos, current_pos, handle_pos) ==
    LET c == handle_corner(original_rect_scene, handle_pos)
    IN  <<c[1] + (current_pos[1] - start_pos[1]), c[2] + (current_pos[2] - start_pos[2])>>

\* lines 390-397: expand a rectangle below min_size, keeping the edge on the
\* side of the handle's opposite
enforce_min_size(ideal_rect, handle_pos) ==
    LET r1 == IF ideal_rect.w < resize_min_size
              THEN IF handle_pos \in {TOP_LEFT, BOTTOM_LEFT}
                   THEN setLeft(ideal_rect, right(ideal_rect) - resize_min_size)
                   ELSE setRight(ideal_rect, left(ideal_rect) + resize_min_size)
              ELSE ideal_rect
    IN  IF r1.h < resize_min_size
        THEN IF handle_pos \in {TOP_LEFT, TOP_RIGHT}
             THEN setTop(r1, bottom(r1) - resize_min_size)
             ELSE setBottom(r1, top(r1) + resize_min_size)
        ELSE r1

clamp_to_image_skipped(final_rect, clamp_rect) == final_rect

\* lines 399-401: the intersection with the image bounds
clamp_to_image(final_rect, clamp_rect) == intersected(final_rect, clamp_rect)

reclamp_without_min_size(clamped_rect, clamp_rect) ==
    LET c3 == IF right(clamped_rect) > right(clamp_rect)
              THEN moveRight(clamped_rect, right(clamp_rect)) ELSE clamped_rect
        c4 == IF bottom(c3) > bottom(clamp_rect) THEN moveBottom(c3, bottom(clamp_rect)) ELSE c3
        c5 == IF left(c4) < left(clamp_rect) THEN moveLeft(c4, left(clamp_rect)) ELSE c4
    IN  IF top(c5) < top(clamp_rect) THEN moveTop(c5, top(clamp_rect)) ELSE c5

\* lines 403-410: minimum size after clamping, then move back inside
reclamp(clamped_rect, clamp_rect) ==
    LET c1 == IF clamped_rect.w < resize_min_size THEN setWidth(clamped_rect, resize_min_size) ELSE clamped_rect
        c2 == IF c1.h < resize_min_size THEN setHeight(c1, resize_min_size) ELSE c1
        c3 == IF right(c2) > right(clamp_rect) THEN moveRight(c2, right(clamp_rect)) ELSE c2
        c4 == IF bottom(c3) > bottom(clamp_rect) THEN moveBottom(c3, bottom(clamp_rect)) ELSE c3
        c5 == IF left(c4) < left(clamp_rect) THEN moveLeft(c4, left(clamp_rect)) ELSE c4
    IN  IF top(c5) < top(clamp_rect) THEN moveTop(c5, top(clamp_rect)) ELSE c5

calculate_resized_rect(original_rect_scene, start_pos, current_pos, handle_pos, clamp_rect) ==
    IF handle_pos \notin HandlePositions THEN original_rect_scene
    ELSE LET ideal_rect == normalized(QRectFpp(fixed_point(original_rect_scene, handle_pos),
                                  dragged_point(original_rect_scene, start_pos, current_pos, handle_pos)))
             final_rect == enforce_min_size(ideal_rect, handle_pos)
         IN  reclamp(clamp_to_image(final_rect, clamp_rect), clamp_rect)

\* ------------------------------- CropGraphicsView.mouseMoveEvent, MOVING branch
clamped_move_pos_top_left_only(original_rect_scene, start_pos, current_pos, img_rect_scene) ==
    LET nx0 == original_rect_scene.x + (current_pos[1] - start_pos[1])
        ny0 == original_rect_scene.y + (current_pos[2] - start_pos[2])
    IN  <<IF nx0 < left(img_rect_scene) THEN left(img_rect_scene) ELSE nx0,
          IF ny0 < top(img_rect_scene) THEN top(img_rect_scene) ELSE ny0>>

\* lines 240-250: the clamped new top-left of the moved rectangle
clamped_move_pos(original_rect_scene, start_pos, current_pos, img_rect_scene) ==
    LET nx0 == original_rect_scene.x + (current_pos[1] - start_pos[1])
        ny0 == original_rect_scene.y + (current_pos[2] - start_pos[2])
        nx1 == IF nx0 < left(img_rect_scene) THEN left(img_rect_scene) ELSE nx0
        ny1 == IF ny0 < top(img_rect_scene) THEN top(img_rect_scene) ELSE ny0
        nx2 == IF nx1 + original_rect_scene.w > right(img_rect_scene)
               THEN right(img_rect_scene) - original_rect_scene.w ELSE nx1
        ny2 == IF ny1 + original_rect_scene.h > bottom(img_rect_scene)
               THEN bottom(img_rect_scene) - original_rect_scene.h ELSE ny1
    IN  <<nx2, ny2>>

\* lines 234-235: the transient rectangle of a draw
draw_rect(start_pos, current_pos, img_rect_scene) ==
    intersected(normalized(QRectFpp(start_pos, current_pos)), img_rect_scene)

\* ------------------------------------------------------------------ state
VARIABLES
    running,                \* FALSE once an exception has left a handler
    has_image,              \* the scene holds the pixmap item (pil_image is set)
    crops,                  \* MainWindow.crops: sequence of [id, rect, z]
    next_id,                \* CropInfo._next_id
    mode,                   \* _mode
    start_pan_pos,          \* _start_pan_pos (view point)
    start_scene_pos,        \* _start_scene_pos
    start_interaction_rect, \* _start_interaction_rect
    current_temp_rect_item, \* _current_temp_rect_item: [item, rect]
    selected_crop_info,     \* _selected_crop_info (reference)
    interaction_crop_info,  \* _interaction_crop_info (reference)
    active_handle,          \* _active_handle: [position, parent]
    handle_items,           \* _handle_items: sequence of [position, parent]
    view_scale,             \* transform().m11() = base/1000 * (115/100)^k
    pan_offset,             \* translation applied by translate()
    signals,                \* crop_selected and crops_updated signals emitted
                            \* by the last handler
    buttons_down,           \* left and middle buttons currently held
    current_scene_pos,      \* scene point of the last pointer-move of the
                            \* running or the last draw, move or resize
                            \* (NoPos: none since the press that began it)
    press_scene_pos         \* scene point of the pointer-down that began the
                            \* running interaction (NoPos: none is running)

vars == <<running, has_image, crops, next_id, mode, start_pan_pos,
          start_scene_pos, start_interaction_rect, current_temp_rect_item,
          selected_crop_info, interaction_crop_info, active_handle,
          handle_items, view_scale, pan_offset, signals, buttons_down,
          current_scene_pos, press_scene_pos>>

docVars == <<has_image, crops, next_id>>
selVars == <<selected_crop_info, handle_items>>
dragVars == <<mode, start_scene_pos, start_interaction_rect, interaction_crop_info,
              active_handle, current_scene_pos, press_scene_pos>>
viewVars == <<view_scale, pan_offset, start_pan_pos>>

img_rect_scene == Rect(0, 0, ImgW * Unit, ImgH * Unit)
NoTemp == [item |-> "None", rect |-> NullRect]

\* pointer inputs
\* presses: the top-left corner of the image and a point outside the image;
\* moves: these and a point one grid step inside the bottom-right corner
ScenePts == {<<0, 0>>, <<ImgW * Unit + Margin, ImgH * Unit + Margin>>}
MovePts == ScenePts \cup {<<ImgW * Unit - 1, ImgH * Unit - 1>>}
FinePts == ((0 - Margin)..(ImgW * Unit + Margin)) \X ((0 - Margin)..(ImgH * Unit + Margin))
ViewPts == {<<v, v>> : v \in 0..MaxView}

\* signals
crop_selected_signal(ref) == [sig |-> "crop_selected", arg |-> ref]
crops_updated_signal == [sig |-> "crops_updated", arg |-> 0]

\* ------------------------------------------------------------ collection
Ids(cs) == {cs[i].id : i \in 1..Len(cs)}
IsLive(ref) == ref \in Ids(crops)
CropIdx(cs, id) == CHOOSE i \in 1..Len(cs) : cs[i].id = id /\ \A j \in 1..(i - 1) : cs[j].id # id
CropOf(cs, id) == cs[CropIdx(cs, id)]
SetRect(cs, id, r) == [cs EXCEPT ![CropIdx(cs, id)].rect = r]
SetZ(cs, id, z) == [cs EXCEPT ![CropIdx(cs, id)].z = z]
MarkStale(ref) == IF ref = NoCrop THEN NoCrop ELSE Stale

\* CropInfo.__init__ (lines 50-53) for a rect item of geometry r
CropInfo(r, nid) == [id |-> nid, rect |-> r, z |-> 0]

next_crop_id_not_advanced(n) == n

\* line 52: the class counter after a creation
next_crop_id(n) == n + 1

prepend_crop(cs, crop_info) == <<crop_info>> \o cs

\* line 302: the new crop is appended to MainWindow.crops
append_crop(cs, crop_info) == Append(cs, crop_info)

commits_any_area(final_rect_scene) ==
    final_rect_scene.w > 0 /\ final_rect_scene.h > 0

\* line 295: the test that commits a drawn rectangle
commits(final_rect_scene) ==
    final_rect_scene.w > draw_min_size /\ final_rect_scene.h > draw_min_size

\* ----------------------------------------- CropGraphicsView.set_selected_crop
\* lines 147-150: one handle per HandlePosition other than NONE
new_handles(ref) == [i \in 1..4 |-> [position |-> HandlePosition[i], parent |-> ref]]

clear_handles_skipped(items) == items

\* lines 140-141: the handles of the previous selection are removed
clear_handles(items) == SubSeq(items, 1, 0)

already_selected_never(sel, crop_info) == FALSE

\* line 136: the early return when the crop is the selected one already
already_selected(sel, crop_info) == sel = crop_info

set_selected_crop(sel, items, cs, crop_info) ==
    IF already_selected(sel, crop_info)
    THEN [raised |-> FALSE, selected |-> sel, items |-> items, crops |-> cs, signals |-> <<>>]
    ELSE IF sel # NoCrop /\ sel \notin Ids(cs)
    THEN [raised |-> TRUE, selected |-> sel, items |-> items, crops |-> cs, signals |-> <<>>]
    ELSE LET cs1 == IF sel # NoCrop THEN SetZ(cs, sel, 0) ELSE cs
             items1 == IF sel # NoCrop THEN clear_handles(items) ELSE items
             cs2 == IF crop_info # NoCrop THEN SetZ(cs1, crop_info, 1) ELSE cs1
             items2 == IF crop_info # NoCrop THEN items1 \o new_handles(crop_info) ELSE items1
         IN  [raised |-> FALSE, selected |-> crop_info, items |-> items2, crops |-> cs2,
              signals |-> <<crop_selected_signal(crop_info)>>]

\* ------------------------------------------------------------ hit testing
RECURSIVE Pow(_, _)
Pow(b, n) == IF n = 0 THEN 1 ELSE b * Pow(b, n - 1)

\* scale * 1000 <= m, for the scale base/1000 * (ZoomNum/ZoomDen)^k; the
\* fraction is reduced by 5 to keep the products small
ScaleLeq(sc, m) ==
    IF sc.k >= 0 THEN sc.base * Pow(ZoomNum \div 5, sc.k) <= m * Pow(ZoomDen \div 5, sc.k)
    ELSE sc.base * Pow(ZoomDen \div 5, 0 - sc.k) <= m * Pow(ZoomNum \div 5, 0 - sc.k)
ScaleGeq(sc, m) ==
    IF sc.k >= 0 THEN sc.base * Pow(ZoomNum \div 5, sc.k) >= m * Pow(ZoomDen \div 5, sc.k)
    ELSE sc.base * Pow(ZoomDen \div 5, 0 - sc.k) >= m * Pow(ZoomNum \div 5, 0 - sc.k)

\* ResizeHandleItem: a square of HandleSize view pixels (pen 1.0) centred on
\* its corner, whatever the zoom; d is a distance in grid steps
within_handle(d, sc) ==
    IF d = 0 THEN TRUE
    ELSE IF sc.k >= 0
    THEN 2 * d * sc.base * Pow(ZoomNum, sc.k) <= (HandleSize + 1) * 1000 * Unit * Pow(ZoomDen, sc.k)
    ELSE 2 * d * sc.base * Pow(ZoomDen, 0 - sc.k) <= (HandleSize + 1) * 1000 * Unit * Pow(ZoomNum, 0 - sc.k)

handle_hit(cs, h, p, sc) ==
    /\ h.parent \in Ids(cs)
    /\ LET c == handle_corner(CropOf(cs, h.parent).rect, h.position)
       IN  within_handle(Abs(p[1] - c[1]), sc) /\ within_handle(Abs(p[2] - c[2]), sc)

\* itemAt: the topmost item when it is a handle (the handle added last is on top)
handle_at(cs, items, p, sc) ==
    LET hits == {i \in 1..Len(items) : handle_hit(cs, items[i], p, sc)}
    IN  IF hits = {} THEN NoHandle
        ELSE items[CHOOSE i \in hits : \A j \in hits : j <= i]

temp_hit(temp, p) ==
    /\ temp.item = "live" /\ temp.rect # NullRect /\ contains(temp.rect, p)

\* scene().itemAt below the handles: "temp" for the transient rectangle, a crop
\* id, or NoCrop for the pixmap or nothing.  Order: ZValue, then insertion
\* (the transient rectangle is always the item added last).
body_at(cs, temp, p) ==
    LET hits == {i \in 1..Len(cs) : contains(cs[i].rect, p)}
        raised == {i \in hits : cs[i].z = 1}
    IN  IF raised # {} THEN cs[CHOOSE i \in raised : \A j \in raised : j <= i].id
        ELSE IF temp_hit(temp, p) THEN TempItem
        ELSE IF hits # {} THEN cs[CHOOSE i \in hits : \A j \in hits : j <= i].id
        ELSE NoCrop

\* ------------------------------------------------------------------ Init
Init ==
    /\ running = TRUE
    /\ buttons_down = {}
    /\ has_image = FALSE
    /\ crops = <<>>
    /\ next_id = 1
    /\ mode = NONE
    /\ start_pan_pos = <<0, 0>>
    /\ start_scene_pos = <<0, 0>>
    /\ start_interaction_rect = NullRect
    /\ current_temp_rect_item = NoTemp
    /\ selected_crop_info = NoCrop
    /\ interaction_crop_info = NoCrop
    /\ active_handle = NoHandle
    /\ handle_items = <<>>
    /\ view_scale = [base |-> 1000, k |-> 0]
    /\ pan_offset = <<0, 0>>
    /\ signals = <<>>
    /\ current_scene_pos = NoPos
    /\ press_scene_pos = NoPos

\* an exception leaves the handler: the process ends
Crash ==
    /\ running' = FALSE
    /\ has_image' = FALSE
    /\ crops' = <<>>
    /\ next_id' = 1
    /\ mode' = NONE
    /\ start_pan_pos' = <<0, 0>>
    /\ start_scene_pos' = <<0, 0>>
    /\ start_interaction_rect' = NullRect
    /\ current_temp_rect_item' = NoTemp
    /\ selected_crop_info' = NoCrop
    /\ interaction_crop_info' = NoCrop
    /\ active_handle' = NoHandle
    /\ handle_items' = <<>>
    /\ view_scale' = [base |-> 1000, k |-> 0]
    /\ pan_offset' = <<0, 0>>
    /\ signals' = <<>>
    /\ current_scene_pos' = NoPos
    /\ press_scene_pos' = NoPos

\* the event is passed to the base class: nothing changes
PassUp ==
    /\ signals' = <<>>
    /\ UNCHANGED <<running, docVars, selVars, dragVars, viewVars, current_temp_rect_item>>

\* ------------------------------------- CropGraphicsView.mousePressEvent
\* the release of the right button changes nothing, so only the left and the
\* middle button are tracked
Held(button) == IF button = RightButton THEN {} ELSE {button}
Buttons_after(held) == IF running' THEN held ELSE {}

mousePressEvent(vp, sp, button, alt) ==
    /\ running
    /\ button \notin buttons_down
    /\ IF ~has_image THEN PassUp
       ELSE IF button = MiddleButton \/ (button = LeftButton /\ alt)
       THEN /\ mode' = PANNING
            /\ start_scene_pos' = sp
            /\ start_pan_pos' = vp
            /\ current_scene_pos' = NoPos
            /\ press_scene_pos' = sp
            /\ signals' = <<>>
            /\ UNCHANGED <<running, docVars, selVars, start_interaction_rect,
                           interaction_crop_info, active_handle, view_scale,
                           pan_offset, current_temp_rect_item>>
       ELSE IF button = LeftButton
       THEN LET clicked_item == handle_at(crops, handle_items, sp, view_scale)
                clicked_item_body == body_at(crops, current_temp_rect_item, sp)
            IN  IF clicked_item # NoHandle /\ selected_crop_info # NoCrop
                THEN /\ mode' = RESIZING
                     /\ start_scene_pos' = sp
                     /\ interaction_crop_info' = selected_crop_info
                     /\ active_handle' = clicked_item
                     /\ start_interaction_rect' = CropOf(crops, selected_crop_info).rect
                     /\ current_scene_pos' = NoPos
                     /\ press_scene_pos' = sp
                     /\ signals' = <<>>
                     /\ UNCHANGED <<running, docVars, selVars, viewVars,
                                    current_temp_rect_item>>
                ELSE IF clicked_item_body \in Ids(crops)
                THEN LET s == set_selected_crop(selected_crop_info, handle_items, crops,
                                                clicked_item_body)
                     IN  IF s.raised THEN Crash
                         ELSE /\ mode' = MOVING
                              /\ start_scene_pos' = sp
                              /\ selected_crop_info' = s.selected
                              /\ handle_items' = s.items
                              /\ crops' = s.crops
                              /\ signals' = s.signals
                              /\ interaction_crop_info' = clicked_item_body
                              /\ start_interaction_rect' = CropOf(crops, clicked_item_body).rect
                              /\ current_scene_pos' = NoPos
                              /\ press_scene_pos' = sp
                              /\ UNCHANGED <<running, has_image, next_id, viewVars,
                                             active_handle, current_temp_rect_item>>
                ELSE IF contains(img_rect_scene, sp)
                THEN LET s == set_selected_crop(selected_crop_info, handle_items, crops, NoCrop)
                     IN  IF s.raised \/ current_temp_rect_item.item = "deleted" THEN Crash
                         ELSE /\ mode' = DRAWING
                              /\ start_scene_pos' = sp
                              /\ selected_crop_info' = s.selected
                              /\ handle_items' = s.items
                              /\ crops' = s.crops
                              /\ signals' = s.signals
                              /\ current_temp_rect_item' =
                                     [item |-> "live", rect |-> Rect(sp[1], sp[2], 0, 0)]
                              /\ current_scene_pos' = NoPos
                              /\ press_scene_pos' = sp
                              /\ UNCHANGED <<running, has_image, next_id, viewVars,
                                             start_interaction_rect, interaction_crop_info,
                                             active_handle>>
                ELSE /\ start_scene_pos' = sp
                     /\ signals' = <<>>
                     /\ UNCHANGED <<running, docVars, selVars, viewVars, mode,
                                    start_interaction_rect, interaction_crop_info,
                                    active_handle, current_scene_pos, press_scene_pos,
                                    current_temp_rect_item>>
       ELSE /\ start_scene_pos' = sp
            /\ signals' = <<>>
            /\ UNCHANGED <<running, docVars, selVars, viewVars, mode,
                           start_interaction_rect, interaction_crop_info,
                           active_handle, current_scene_pos, press_scene_pos,
                           current_temp_rect_item>>
    /\ buttons_down' = Buttons_after(buttons_down \cup Held(button))

\* -------------------------------------- CropGraphicsView.mouseMoveEvent
emit_selection_too == <<crop_selected_signal(selected_crop_info), crops_updated_signal>>

\* lines 254 and 269: what a move or resize step emits
emit_crops_updated == <<crops_updated_signal>>

pan_signals_crops_updated == <<crops_updated_signal>>

\* lines 227-231: a pan step emits neither crops_updated nor crop_selected
pan_signals == <<>>

use_live_rect(stored_start_rect, live_rect) == live_rect

\* lines 241 and 260: a move or resize step starts from the rectangle stored
\* at the press, not from the rectangle the item has now
use_stored_start_rect(stored_start_rect, live_rect) == stored_start_rect

moving_whatever_the_mode(m, crop_info) == crop_info # NoCrop

\* line 239: the test that makes a pointer-move a step of a move
moving(m, crop_info) == m = MOVING /\ crop_info # NoCrop

mouseMoveEvent(vp, sp) ==
    /\ running
    /\ IF ~has_image THEN PassUp
       ELSE IF mode = PANNING
       THEN /\ pan_offset' = <<pan_offset[1] + (vp[1] - start_pan_pos[1]),
                               pan_offset[2] + (vp[2] - start_pan_pos[2])>>
            /\ pan_offset'[1] \in 0..MaxPan /\ pan_offset'[2] \in 0..MaxPan
            /\ start_pan_pos' = vp
            /\ signals' = pan_signals
            /\ UNCHANGED <<running, docVars, selVars, dragVars, view_scale,
                           current_temp_rect_item>>
       ELSE IF mode = DRAWING /\ current_temp_rect_item.item # "None"
       THEN IF current_temp_rect_item.item = "deleted" THEN Crash
            ELSE /\ current_temp_rect_item' =
                        [item |-> "live", rect |-> draw_rect(start_scene_pos, sp, img_rect_scene)]
                 /\ current_scene_pos' = sp
                 /\ signals' = <<>>
                 /\ UNCHANGED <<running, docVars, selVars, viewVars, mode, start_scene_pos,
                                start_interaction_rect, interaction_crop_info, active_handle,
                                press_scene_pos>>
       ELSE IF moving(mode, interaction_crop_info)
       THEN IF ~IsLive(interaction_crop_info) THEN Crash
            ELSE LET old == CropOf(crops, interaction_crop_info).rect
                     tl == clamped_move_pos(use_stored_start_rect(start_interaction_rect, old),
                                            start_scene_pos, sp, img_rect_scene)
                 IN  /\ crops' = SetRect(crops, interaction_crop_info,
                                         [old EXCEPT !.x = tl[1], !.y = tl[2]])
                     /\ current_scene_pos' = sp
                     /\ signals' = emit_crops_updated
                     /\ UNCHANGED <<running, has_image, next_id, selVars, viewVars,
                                    mode, start_scene_pos, start_interaction_rect,
                                    interaction_crop_info, active_handle, press_scene_pos,
                                    current_temp_rect_item>>
       ELSE IF mode = RESIZING /\ interaction_crop_info # NoCrop /\ active_handle # NoHandle
       THEN IF ~IsLive(interaction_crop_info) THEN Crash
            ELSE LET old == CropOf(crops, interaction_crop_info).rect
                     new_rect_scene == calculate_resized_rect(
                                           use_stored_start_rect(start_interaction_rect, old),
                                           start_scene_pos, sp, active_handle.position,
                                           img_rect_scene)
                 IN  /\ crops' = SetRect(crops, interaction_crop_info, new_rect_scene)
                     /\ current_scene_pos' = sp
                     /\ signals' = emit_crops_updated
                     /\ UNCHANGED <<running, has_image, next_id, selVars, viewVars,
                                    mode, start_scene_pos, start_interaction_rect,
                                    interaction_crop_info, active_handle, press_scene_pos,
                                    current_temp_rect_item>>
       ELSE /\ signals' = <<>>
            /\ UNCHANGED <<running, docVars, selVars, dragVars, viewVars,
                           current_temp_rect_item>>
    /\ buttons_down' = Buttons_after(buttons_down)

\* ----------------------------------- CropGraphicsView.mouseReleaseEvent
release_reset_keeps_mode ==
    /\ interaction_crop_info' = NoCrop
    /\ active_handle' = NoHandle
    /\ start_interaction_rect' = NullRect
    /\ press_scene_pos' = NoPos
    /\ UNCHANGED <<mode, current_scene_pos>>

\* lines 313-316: the reset at the end of a left release
release_reset ==
    /\ mode' = NONE
    /\ interaction_crop_info' = NoCrop
    /\ active_handle' = NoHandle
    /\ start_interaction_rect' = NullRect
    /\ press_scene_pos' = NoPos
    /\ UNCHANGED current_scene_pos

mouseReleaseEvent(button) ==
    /\ running
    /\ button \in buttons_down \cup {RightButton}
    /\ IF mode = NONE THEN PassUp
       ELSE IF button = MiddleButton /\ mode = PANNING
       THEN /\ mode' = NONE
            /\ press_scene_pos' = NoPos
            /\ signals' = <<>>
            /\ UNCHANGED <<running, docVars, selVars, viewVars, start_scene_pos,
                           start_interaction_rect, interaction_crop_info, active_handle,
                           current_scene_pos, current_temp_rect_item>>
       ELSE IF button = LeftButton
       THEN IF mode = DRAWING /\ current_temp_rect_item.item # "None"
            THEN IF current_temp_rect_item.item = "deleted" THEN Crash
                 ELSE LET final_rect_scene == current_temp_rect_item.rect
                      IN  IF commits(final_rect_scene)
                          THEN LET new_crop_info == CropInfo(final_rect_scene, next_id)
                                   s == set_selected_crop(selected_crop_info, handle_items,
                                                          append_crop(crops, new_crop_info),
                                                          new_crop_info.id)
                               IN  /\ Len(crops) < MaxCrops
                                   /\ IF s.raised THEN Crash
                                      ELSE /\ current_temp_rect_item' = NoTemp
                                           /\ next_id' = next_crop_id(next_id)
                                           /\ crops' = s.crops
                                           /\ selected_crop_info' = s.selected
                                           /\ handle_items' = s.items
                                           /\ signals' = s.signals
                                           /\ release_reset
                                           /\ UNCHANGED <<running, has_image, viewVars,
                                                          start_scene_pos>>
                          ELSE LET s == set_selected_crop(selected_crop_info, handle_items,
                                                          crops, NoCrop)
                               IN  IF s.raised THEN Crash
                                   ELSE /\ current_temp_rect_item' = NoTemp
                                        /\ crops' = s.crops
                                        /\ selected_crop_info' = s.selected
                                        /\ handle_items' = s.items
                                        /\ signals' = s.signals
                                        /\ release_reset
                                        /\ UNCHANGED <<running, has_image, next_id,
                                                       viewVars, start_scene_pos>>
            ELSE /\ signals' = <<>>
                 /\ release_reset
                 /\ UNCHANGED <<running, docVars, selVars, viewVars, start_scene_pos,
                                current_temp_rect_item>>
       ELSE /\ signals' = <<>>
            /\ UNCHANGED <<running, docVars, selVars, dragVars, viewVars,
                           current_temp_rect_item>>
    /\ buttons_down' = Buttons_after(buttons_down \ {button})

\* ----------------------------------------- CropGraphicsView.wheelEvent
zoom_rejected_never(scaled) == FALSE

\* line 327: the request is ignored when the scale would leave [0.05, 100]
zoom_rejected(scaled) ==
    ~ScaleGeq(scaled, ZoomMinMilli) \/ ~ScaleLeq(scaled, ZoomMaxMilli)

wheelEvent(up) ==
    /\ running
    /\ signals' = <<>>
    /\ IF ~has_image THEN UNCHANGED view_scale
       ELSE LET scaled == [view_scale EXCEPT !.k = IF up THEN @ + 1 ELSE @ - 1]
            IN  /\ scaled.k <= MaxZoomIn /\ scaled.k >= 0 - (MaxZoomOut + 1)
                /\ IF zoom_rejected(scaled)
                   THEN UNCHANGED view_scale
                   ELSE /\ scaled.k >= 0 - MaxZoomOut
                        /\ view_scale' = scaled
    /\ UNCHANGED <<running, docVars, selVars, dragVars, pan_offset, start_pan_pos,
                   current_temp_rect_item>>
    /\ UNCHANGED buttons_down

\* ------------- MainWindow.delete_selected_crop (Delete key or the button)
delete_selected_crop(confirmed) ==
    /\ running
    /\ IF selected_crop_info = NoCrop \/ ~confirmed THEN PassUp
       ELSE IF ~IsLive(selected_crop_info) \/ Len(handle_items) > 0
       \* line 583 on a deleted rect_item, or line 585: self.scene is the
       \* QGraphicsScene attribute, calling it raises TypeError
       THEN Crash
       ELSE LET cs == SelectSeq(crops, LAMBDA c : c.id # selected_crop_info)
                s == set_selected_crop(selected_crop_info, <<>>, cs, NoCrop)
            IN  IF s.raised THEN Crash
                ELSE /\ crops' = s.crops
                     /\ selected_crop_info' = s.selected
                     /\ handle_items' = s.items
                     /\ signals' = s.signals
                     /\ UNCHANGED <<running, has_image, next_id, dragVars, viewVars,
                                    current_temp_rect_item>>
    /\ buttons_down' = Buttons_after(buttons_down)

\* ------------------- a call of CropGraphicsView.set_selected_crop
select(crop_info) ==
    /\ running
    /\ crop_info \in Ids(crops) \cup {NoCrop}
    /\ LET s == set_selected_crop(selected_crop_info, handle_items, crops, crop_info)
       IN  IF s.raised THEN Crash
           ELSE /\ crops' = s.crops
                /\ selected_crop_info' = s.selected
                /\ handle_items' = s.items
                /\ signals' = s.signals
                /\ UNCHANGED <<running, has_image, next_id, dragVars, viewVars,
                               current_temp_rect_item>>
    /\ buttons_down' = Buttons_after(buttons_down)

\* ----------------------------- MainWindow.on_crop_selection_changed
\* the user changes the selection of the list widget, whose selection mirrors
\* the selected crop when that crop is listed
on_crop_selection_changed(crop_info) ==
    /\ crop_info # (IF IsLive(selected_crop_info) THEN selected_crop_info ELSE NoCrop)
    /\ select(crop_info)

\* ------------------------------------------------ MainWindow.open_image
\* scene.clear() deletes every item: references to them become stale
scene_clear ==
    /\ interaction_crop_info' = MarkStale(interaction_crop_info)
    /\ active_handle' = IF active_handle = NoHandle THEN NoHandle
                        ELSE [active_handle EXCEPT !.parent = Stale]
    /\ current_temp_rect_item' = IF current_temp_rect_item.item = "None" THEN NoTemp
                                 ELSE [item |-> "deleted", rect |-> NullRect]
    /\ selected_crop_info' = MarkStale(selected_crop_info)
    /\ handle_items' = [i \in 1..Len(handle_items) |->
                           [handle_items[i] EXCEPT !.parent = Stale]]

\* outcome: "ok", "open_fails" (Image.open raises), "convert_fails"
\* (pillow_to_qimage or QPixmap.fromImage raises); fit: the scale, in
\* thousandths, that fitInView gives for the image and the viewport
open_image(outcome, fit) ==
    /\ running
    /\ crops' = <<>>
    /\ scene_clear
    /\ signals' = <<>>
    /\ IF outcome = "open_fails"
       THEN /\ has_image' = FALSE
            /\ UNCHANGED <<next_id, viewVars>>
       ELSE IF selected_crop_info # NoCrop \/ outcome = "convert_fails"
       \* line 518 raises on the deleted rect_item of the selected crop
       THEN /\ has_image' = FALSE
            /\ next_id' = 1
            /\ UNCHANGED viewVars
       ELSE /\ has_image' = TRUE
            /\ next_id' = 1
            /\ view_scale' = [base |-> fit, k |-> 0]
            /\ pan_offset' = <<0, 0>>
            /\ UNCHANGED start_pan_pos
    /\ UNCHANGED <<running, mode, start_scene_pos, start_interaction_rect,
                   current_scene_pos, press_scene_pos, buttons_down>>

\* -------------------------------------------- MainWindow.update_crop_list
\* line 536: sorted(self.crops, key=lambda c: c.id), a stable sort; the
\* result is the sequence of the ids the list widget shows
sort_rank(cs, j) ==
    Cardinality({k \in 1..Len(cs) : cs[k].id < cs[j].id \/ (cs[k].id = cs[j].id /\ k < j)})
update_crop_list(cs) ==
    [i \in 1..Len(cs) |-> cs[CHOOSE j \in 1..Len(cs) : sort_rank(cs, j) = i - 1].id]

\* --------------------------------------------- MainWindow.download_crops
\* int(round(v)) of a coordinate of c grid steps: to the nearest integer,
\* halves to the even one
int_round(c) ==
    LET q == c \div Unit
        r == c % Unit
    IN  IF 2 * r < Unit THEN q
        ELSE IF 2 * r > Unit THEN q + 1
        ELSE IF q % 2 = 0 THEN q ELSE q + 1

\* lines 610-612: the pixel box of a crop
crop_box(rect_f) ==
    [left |-> Max(0, int_round(left(rect_f))), upper |-> Max(0, int_round(top(rect_f))),
     right |-> Min(ImgW, int_round(right(rect_f))),
     lower |-> Min(ImgH, int_round(bottom(rect_f)))]

\* lines 608-621: the files written, in the order of the iteration over
\* self.crops; a crop whose box is empty is skipped
download_crops(cs) ==
    LET boxes == [i \in 1..Len(cs) |-> [id |-> cs[i].id, box |-> crop_box(cs[i].rect)]]
    IN  SelectSeq(boxes, LAMBDA b : b.box.right > b.box.left /\ b.box.lower > b.box.upper)

\* ------------------------------------------------------------------ Next
\* The user works with one mouse: the list widget and the File menu are
\* reached only while no button is held on the view.
Next ==
    \/ \E vp \in ViewPts, sp \in ScenePts, b \in Buttons, alt \in BOOLEAN :
          mousePressEvent(vp, sp, b, alt)
    \/ \E vp \in ViewPts, sp \in MovePts : mouseMoveEvent(vp, sp)
    \/ \E b \in Buttons : mouseReleaseEvent(b)
    \/ \E up \in BOOLEAN : wheelEvent(up)
    \/ \E confirmed \in BOOLEAN : delete_selected_crop(confirmed)
    \/ \E c \in 0..MaxCrops : buttons_down = {} /\ on_crop_selection_changed(c)
    \/ \E outcome \in {"ok", "open_fails", "convert_fails"} :
          buttons_down = {} /\ open_image(outcome, FitScale * 1000)

Spec == Init /\ [][Next]_vars

\* ----------------------------------------- one move or resize gesture
\* The pointer-moves of a running move or resize, for every point of the
\* grid.  The gesture began with a left press on the body or on a handle of
\* the selected crop; the start point is that of the press or, after a press
\* of another button during the gesture (line 166), one of ScenePts.
SnapSpans(len) ==
    {<<0, len>>, <<1, len - 1>>, <<Unit + 1, Unit + 1 + resize_min_size>>,
     <<0, resize_min_size>>, <<len - Unit - 1, len>>}
SnapRects ==
    {Rect(sx[1], sy[1], sx[2] - sx[1], sy[2] - sy[1]) :
        sx \in SnapSpans(ImgW * Unit), sy \in SnapSpans(ImgH * Unit)}
press_point(r, handle_pos) ==
    IF handle_pos \in HandlePositions THEN handle_corner(r, handle_pos)
    ELSE <<r.x + 1, r.y + 1>>

InitDrag ==
    \E r \in SnapRects, handle_pos \in HandlePositions \cup {"NONE"} :
      \E start_pos \in {press_point(r, handle_pos)} \cup ScenePts :
        /\ running = TRUE
        /\ buttons_down = {LeftButton}
        /\ has_image = TRUE
        /\ crops = <<[id |-> 1, rect |-> r, z |-> 1]>>
        /\ next_id = 2
        /\ mode = IF handle_pos \in HandlePositions THEN RESIZING ELSE MOVING
        /\ start_pan_pos = <<0, 0>>
        /\ start_scene_pos = start_pos
        /\ start_interaction_rect = r
        /\ current_temp_rect_item = NoTemp
        /\ selected_crop_info = 1
        /\ interaction_crop_info = 1
        /\ active_handle = IF handle_pos \in HandlePositions
                           THEN [position |-> handle_pos, parent |-> 1] ELSE NoHandle
        /\ handle_items = new_handles(1)
        /\ view_scale = [base |-> FitScale * 1000, k |-> 0]
        /\ pan_offset = <<0, 0>>
        /\ signals = <<>>
        /\ current_scene_pos = NoPos
        /\ press_scene_pos = press_point(r, handle_pos)

\* the first pointer-move of the gesture goes to any point of the grid, the
\* later ones to MovePts
GesturePts == IF current_scene_pos = NoPos THEN FinePts ELSE MovePts

NextDrag == \E sp \in GesturePts : mouseMoveEvent(<<0, 0>>, sp)

SpecDrag == InitDrag /\ [][NextDrag]_vars

\* ------------------------------------------------------ one draw gesture
\* The pointer-moves and the left release of a draw that began with a left
\* press on a free point of the image, with or without an older crop.
DrawPressPts == {0, 1, 3 * Unit, ImgW * Unit} \X {0, 1, 3 * Unit, ImgH * Unit}
OlderCrops ==
    {<<>>, <<[id |-> 1, z |-> 0,
              rect |-> Rect(Unit + 1, Unit + 1, resize_min_size, resize_min_size)]>>}

InitDraw ==
    \E p \in DrawPressPts, older \in OlderCrops :
        /\ running = TRUE
        /\ buttons_down = {LeftButton}
        /\ has_image = TRUE
        /\ crops = older
        /\ next_id = Len(older) + 1
        /\ mode = DRAWING
        /\ start_pan_pos = <<0, 0>>
        /\ start_scene_pos = p
        /\ start_interaction_rect = NullRect
        /\ current_temp_rect_item = [item |-> "live", rect |-> Rect(p[1], p[2], 0, 0)]
        /\ selected_crop_info = NoCrop
        /\ interaction_crop_info = NoCrop
        /\ active_handle = NoHandle
        /\ handle_items = <<>>
        /\ view_scale = [base |-> FitScale * 1000, k |-> 0]
        /\ pan_offset = <<0, 0>>
        /\ signals = <<>>
        /\ current_scene_pos = NoPos
        /\ press_scene_pos = p

NextDraw ==
    \/ \E sp \in GesturePts : mouseMoveEvent(<<0, 0>>, sp)
    \/ mouseReleaseEvent(LeftButton)

SpecDraw == InitDraw /\ [][NextDraw]_vars

\* ------------------------------------------------------------- the view
\* Image loads with the scales fitInView can give (an image far larger than
\* the viewport, one somewhat larger, one smaller, one far smaller), wheel
\* zooms and pans with the middle button.
FitScales == {FitTooSmallMilli, FitSmallMilli, FitScale * 1000, FitTooLarge * 1000}

NextView ==
    \/ \E outcome \in {"ok", "open_fails", "convert_fails"}, fit \in FitScales :
          buttons_down = {} /\ open_image(outcome, fit)
    \/ \E up \in BOOLEAN : wheelEvent(up)
    \/ \E vp \in ViewPts, sp \in ScenePts : mousePressEvent(vp, sp, MiddleButton, FALSE)
    \/ \E vp \in ViewPts, sp \in MovePts : mouseMoveEvent(vp, sp)
    \/ mouseReleaseEvent(MiddleButton)

SpecView == Init /\ [][NextView]_vars

\* ------------------------------------------------------- selections
\* Calls of set_selected_crop with any value, the selected one included, and
\* the left presses and releases that select through the view, from the idle
\* states with up to two crops and any of them, or none, selected.
SelectCrops ==
    {<<>>} \cup {<<[id |-> 1, rect |-> r, z |-> 0]>> : r \in SnapRects}
           \cup {<<[id |-> 1, rect |-> r1, z |-> 0], [id |-> 2, rect |-> r2, z |-> 0]>> :
                    r1 \in SnapRects, r2 \in SnapRects}

\* the idle state with the image loaded, the crops cs, sel selected and the
\* view at the scale fit
Idle(cs, sel, fit) ==
    /\ running = TRUE
    /\ buttons_down = {}
    /\ has_image = TRUE
    /\ crops = IF sel = NoCrop THEN cs ELSE SetZ(cs, sel, 1)
    /\ next_id = Len(cs) + 1
    /\ mode = NONE
    /\ start_pan_pos = <<0, 0>>
    /\ start_scene_pos = <<0, 0>>
    /\ start_interaction_rect = NullRect
    /\ current_temp_rect_item = NoTemp
    /\ selected_crop_info = sel
    /\ interaction_crop_info = NoCrop
    /\ active_handle = NoHandle
    /\ handle_items = IF sel = NoCrop THEN <<>> ELSE new_handles(sel)
    /\ view_scale = [base |-> fit, k |-> 0]
    /\ pan_offset = <<0, 0>>
    /\ signals = <<>>
    /\ current_scene_pos = NoPos
    /\ press_scene_pos = NoPos

InitSelect ==
    \E cs \in SelectCrops :
      \E sel \in Ids(cs) \cup {NoCrop} : Idle(cs, sel, FitScale * 1000)

NextSelect ==
    \/ \E c \in 0..MaxCrops : select(c)
    \/ \E sp \in ScenePts : mousePressEvent(<<0, 0>>, sp, LeftButton, FALSE)
    \/ mouseReleaseEvent(LeftButton)

SpecSelect == InitSelect /\ [][NextSelect]_vars

\* ---------------------------------------------------------------- claims
\* The geometry of the specification, written with Min and Max.
RefSpan(p, q) ==
    Rect(Min(p[1], q[1]), Min(p[2], q[2]), Abs(p[1] - q[1]), Abs(p[2] - q[2]))
RefIntersection(a, b) ==
    LET x1 == Max(a.x, b.x)
        y1 == Max(a.y, b.y)
        x2 == Min(a.x + a.w, b.x + b.w)
        y2 == Min(a.y + a.h, b.y + b.h)
    IN  Rect(x1, y1, Max(0, x2 - x1), Max(0, y2 - y1))
RefClamp(v, lo, hi) == Max(lo, Min(v, hi))
RefCorner(r, handle_pos) ==
    <<IF handle_pos \in {TOP_LEFT, BOTTOM_LEFT} THEN r.x ELSE r.x + r.w,
      IF handle_pos \in {TOP_LEFT, TOP_RIGHT} THEN r.y ELSE r.y + r.h>>
RefOpposite(r, handle_pos) ==
    <<IF handle_pos \in {TOP_LEFT, BOTTOM_LEFT} THEN r.x + r.w ELSE r.x,
      IF handle_pos \in {TOP_LEFT, TOP_RIGHT} THEN r.y + r.h ELSE r.y>>
RefResize(snapshot, handle_pos, drag_start, pointer) ==
    LET c == RefCorner(snapshot, handle_pos)
        dragged == <<c[1] + (pointer[1] - drag_start[1]), c[2] + (pointer[2] - drag_start[2])>>
    IN  RefIntersection(RefSpan(RefOpposite(snapshot, handle_pos), dragged), img_rect_scene)
Corners(r) == {topLeft(r), topRight(r), bottomLeft(r), bottomRight(r)}
Regions(cs) == [i \in 1..Len(cs) |-> [id |-> cs[i].id, rect |-> cs[i].rect]]
EditedRect == CropOf(crops, interaction_crop_info).rect
Stepped(m) == mode = m /\ current_scene_pos # NoPos /\ IsLive(interaction_crop_info)

\* C1: in every reachable state every region of the collection lies inside
\* the content bounds: intersecting its geometry with the bounds gives the
\* same geometry.
C1_InBounds ==
    \A i \in 1..Len(crops) :
        RefIntersection(crops[i].rect, img_rect_scene) = crops[i].rect

\* C1, the case: two regions, the view panned and zoomed, and a move or a
\* resize whose last pointer position is outside the image.
C1_Witness ==
    /\ Len(crops) = 2 /\ (Stepped(MOVING) \/ Stepped(RESIZING))
    /\ ~contains(img_rect_scene, current_scene_pos)
    /\ view_scale.k # 0 /\ pan_offset # <<0, 0>>

\* C2: every region of the collection is at least 1 unit wide and 1 unit
\* high, after every move or resize step, for every handle and every pointer
\* position.
C2_MinSize ==
    \A i \in 1..Len(crops) :
        crops[i].rect.w >= resize_min_size /\ crops[i].rect.h >= resize_min_size

\* C2, the case: a resize whose pointer is outside the image and past the
\* opposite corner, so that nothing of the spanned rectangle is inside the
\* bounds; the region written is 1 unit wide.
C2_Witness ==
    /\ Stepped(RESIZING) /\ ~contains(img_rect_scene, current_scene_pos)
    /\ RefResize(start_interaction_rect, active_handle.position, start_scene_pos,
                 current_scene_pos).w = 0
    /\ EditedRect.w = resize_min_size

\* C3: after every resize step the fixed point (the corner of the snapshot
\* opposite the dragged handle) is still a corner of the rectangle written
\* to the region.
C3_FixedPointStationary ==
    Stepped(RESIZING) =>
        RefOpposite(start_interaction_rect, active_handle.position) \in Corners(EditedRect)

\* C4: after every resize step the region is the reference rectangle (the
\* span of the fixed point and of the dragged corner moved by pointer minus
\* drag start, intersected with the bounds) whenever that rectangle is at
\* least 1 unit wide and high; bounds 800x600, region {50,50,250,250},
\* bottom-right handle dragged from (300,300) to (790,590) gives
\* {50,50,740,540}.  The drag start is the start point the view has recorded.
C4_ResizeReference ==
    /\ calculate_resized_rect(Rect(50 * Unit, 50 * Unit, 250 * Unit, 250 * Unit),
                              <<300 * Unit, 300 * Unit>>, <<790 * Unit, 590 * Unit>>,
                              BOTTOM_RIGHT, Rect(0, 0, 800 * Unit, 600 * Unit))
         = Rect(50 * Unit, 50 * Unit, 740 * Unit, 540 * Unit)
    /\ Stepped(RESIZING) =>
         LET ref == RefResize(start_interaction_rect, active_handle.position,
                              start_scene_pos, current_scene_pos)
         IN  (ref.w >= resize_min_size /\ ref.h >= resize_min_size) => EditedRect = ref

\* C4, the case: a resize by the bottom-right handle, with a start point that
\* is not the handle's corner, whose spanned rectangle is cut by the bounds.
C4_Witness ==
    /\ Stepped(RESIZING) /\ active_handle.position = BOTTOM_RIGHT
    /\ start_scene_pos # RefCorner(start_interaction_rect, BOTTOM_RIGHT)
    /\ ~contains(img_rect_scene, current_scene_pos)
    /\ EditedRect.w > resize_min_size /\ EditedRect.h > resize_min_size
    /\ EditedRect # start_interaction_rect
    /\ EditedRect = RefResize(start_interaction_rect, BOTTOM_RIGHT, start_scene_pos,
                              current_scene_pos)

\* C5: after every pointer-move in Moving mode the region's top-left is the
\* snapshot's top-left plus pointer minus drag start, clamped on each axis so
\* that the rectangle stays inside the bounds, its width and height are those
\* of the snapshot, and regions-changed has been emitted.  The drag start is
\* the start point the view has recorded.
C5_MoveStep ==
    Stepped(MOVING) =>
        LET snap == start_interaction_rect
        IN  /\ EditedRect.w = snap.w /\ EditedRect.h = snap.h
            /\ EditedRect.x = RefClamp(snap.x + (current_scene_pos[1] - start_scene_pos[1]),
                                       0, ImgW * Unit - snap.w)
            /\ EditedRect.y = RefClamp(snap.y + (current_scene_pos[2] - start_scene_pos[2]),
                                       0, ImgH * Unit - snap.h)
            /\ signals = <<crops_updated_signal>>

\* C5, the case: a move whose translated rectangle would cross the right and
\* the bottom edge and is clamped to them.
C5_Witness ==
    /\ Stepped(MOVING)
    /\ start_interaction_rect.x + (current_scene_pos[1] - start_scene_pos[1])
         > ImgW * Unit - start_interaction_rect.w
    /\ start_interaction_rect.y + (current_scene_pos[2] - start_scene_pos[2])
         > ImgH * Unit - start_interaction_rect.h
    /\ EditedRect.x = ImgW * Unit - start_interaction_rect.w
    /\ EditedRect.x # start_interaction_rect.x

\* C6: a step that commits a draw adds exactly one region; its geometry is
\* the intersection of the bounds with the rectangle spanned by the press
\* point and the last pointer-move position, its width and height are both
\* above 5, and it is the selected region.
C6_CommittedDraw ==
    [][Len(crops') > Len(crops) =>
          LET created == crops'[Len(crops')]
          IN  /\ Regions(crops') = Append(Regions(crops), [id |-> created.id, rect |-> created.rect])
              /\ press_scene_pos # NoPos /\ current_scene_pos # NoPos
              /\ created.rect = RefIntersection(RefSpan(press_scene_pos, current_scene_pos),
                                                img_rect_scene)
              /\ created.rect.w > draw_min_size /\ created.rect.h > draw_min_size
              /\ selected_crop_info' = created.id]_vars

\* C7: a left release in Drawing mode whose transient rectangle is at least
\* 5 units wide and 5 units high commits the draw: a region is created and
\* selected and the mode is Idle.
C7_CommitAtMinimum ==
    [][(/\ mode = DRAWING /\ current_temp_rect_item.item = "live"
        /\ current_temp_rect_item.rect.w >= draw_min_size
        /\ current_temp_rect_item.rect.h >= draw_min_size
        /\ mouseReleaseEvent(LeftButton))
       => (/\ Len(crops') = Len(crops) + 1
           /\ crops'[Len(crops')].rect = current_temp_rect_item.rect
           /\ selected_crop_info' = crops'[Len(crops')].id
           /\ mode' = NONE)]_vars

\* C8: a left release in Drawing mode whose transient rectangle is less than
\* 5 units wide or high discards it: no region is created, the collection and
\* the id counter are unchanged, nothing is selected and the mode is Idle.
C8_DiscardBelowMinimum ==
    [][(/\ mode = DRAWING /\ current_temp_rect_item.item = "live"
        /\ (\/ current_temp_rect_item.rect.w < draw_min_size
            \/ current_temp_rect_item.rect.h < draw_min_size)
        /\ mouseReleaseEvent(LeftButton))
       => (/\ Regions(crops') = Regions(crops)
           /\ next_id' = next_id
           /\ current_temp_rect_item' = NoTemp
           /\ selected_crop_info' = NoCrop /\ handle_items' = <<>>
           /\ mode' = NONE)]_vars

\* C8, the case: a draw of 3 by 3 units next to an older region has been
\* released; the older region is all there is.
C8_Witness ==
    /\ mode = NONE /\ buttons_down = {} /\ current_scene_pos # NoPos
    /\ RefSpan(start_scene_pos, current_scene_pos) =
         Rect(start_scene_pos[1], start_scene_pos[2], 3 * Unit, 3 * Unit)
    /\ contains(img_rect_scene, current_scene_pos)
    /\ Len(crops) = 1 /\ next_id = 2
    /\ current_temp_rect_item = NoTemp /\ selected_crop_info = NoCrop

\* C9: the ids of the collection are distinct and increase in the order of
\* creation from 1: every region's id is below the counter, a creation takes
\* the counter's value and advances it by one, the counter never decreases
\* except to 1 with the collection emptied, and a successful image load
\* leaves the counter at 1.
C9_Ids ==
    [][/\ \A i \in 1..Len(crops') : crops'[i].id >= 1 /\ crops'[i].id < next_id'
       /\ \A i, j \in 1..Len(crops') : i < j => crops'[i].id < crops'[j].id
       /\ Len(crops') > Len(crops) =>
              /\ Len(crops') = Len(crops) + 1
              /\ crops'[Len(crops')].id = next_id
              /\ next_id' = next_id + 1
       /\ Len(crops') <= Len(crops) =>
              \/ next_id' = next_id
              \/ next_id' = 1 /\ crops' = <<>>
       /\ (open_image("ok", FitScale * 1000) /\ has_image') => (next_id' = 1 /\ crops' = <<>>)]_vars

\* C9, the case: two regions created one after the other have the ids 1 and
\* 2 in the order of creation, and the counter stands at 3.
C9_Witness ==
    /\ Len(crops) = 2 /\ crops[1].id = 1 /\ crops[2].id = 2 /\ next_id = 3
    /\ mode = NONE

\* C10: at most one region is selected; when a region is selected there are
\* exactly 4 handles, one per corner, all bound to it; when nothing is
\* selected there is no handle.
C10_Selection ==
    /\ Cardinality({i \in 1..Len(crops) : crops[i].z = 1}) <= 1
    /\ \A i \in 1..Len(crops) : crops[i].z = 1 <=> crops[i].id = selected_crop_info
    /\ IF selected_crop_info = NoCrop THEN handle_items = <<>>
       ELSE /\ Len(handle_items) = 4
            /\ {handle_items[i].position : i \in 1..4} = HandlePositions
            /\ \A i \in 1..4 : handle_items[i].parent = selected_crop_info

\* C10, the case: of two regions the older one is selected, after the newer
\* one had been selected by its creation.
C10_Witness ==
    /\ Len(crops) = 2 /\ selected_crop_info = crops[1].id
    /\ crops[1].z = 1 /\ crops[2].z = 0
    /\ Len(handle_items) = 4

\* ------------------------------------------------------------- zooming
\* Wheel zooms and middle-button pans over a loaded image with up to two
\* crops, at every scale fitInView can have left.
ZoomCrops ==
    {<<>>,
     <<[id |-> 1, rect |-> Rect(Unit + 1, Unit + 1, resize_min_size, resize_min_size), z |-> 0]>>,
     <<[id |-> 1, rect |-> Rect(Unit + 1, Unit + 1, resize_min_size, resize_min_size), z |-> 0],
       [id |-> 2, rect |-> img_rect_scene, z |-> 0]>>}

InitZoom ==
    \E cs \in ZoomCrops, fit \in FitScales :
      \E sel \in Ids(cs) \cup {NoCrop} : Idle(cs, sel, fit)

NextZoom ==
    \/ \E up \in BOOLEAN : wheelEvent(up)
    \/ \E vp \in ViewPts, sp \in ScenePts : mousePressEvent(vp, sp, MiddleButton, FALSE)
    \/ \E vp \in ViewPts, sp \in MovePts : mouseMoveEvent(vp, sp)
    \/ mouseReleaseEvent(MiddleButton)

SpecZoom == InitZoom /\ [][NextZoom]_vars

\* ------------------------------------------------------------- pressing
\* Presses of every button, with and without Alt, on the free image, on the
\* body and on the top-left corner of a small crop and outside the image,
\* with the releases between them and the pointer-moves of the draws, from
\* the idle states with up to two crops.
PressPts ==
    ScenePts \cup {<<Unit + 1, Unit + 1>>, <<Unit + 2, Unit + 2>>}

InitPress ==
    \E cs \in ZoomCrops :
      \E sel \in Ids(cs) \cup {NoCrop} : Idle(cs, sel, FitScale * 1000)

NextPress ==
    \/ \E sp \in PressPts, b \in Buttons, alt \in BOOLEAN :
          mousePressEvent(<<0, 0>>, sp, b, alt)
    \/ \E sp \in MovePts : mode = DRAWING /\ mouseMoveEvent(<<0, 0>>, sp)
    \/ \E b \in Buttons : mouseReleaseEvent(b)

SpecPress == InitPress /\ [][NextPress]_vars

\* -------------------------------------------------- keys during a drag
\* Moves and resizes with the left button while the keyboard reaches the
\* list widget (Tab moves the focus to it, the arrow keys change its
\* selection) and the Delete key, from the idle states with up to two crops.
NextEdit ==
    \/ \E sp \in PressPts : mousePressEvent(<<0, 0>>, sp, LeftButton, FALSE)
    \/ \E sp \in MovePts : mode \in {MOVING, RESIZING} /\ mouseMoveEvent(<<0, 0>>, sp)
    \/ mouseReleaseEvent(LeftButton)
    \/ \E c \in 1..MaxCrops : on_crop_selection_changed(c)
    \/ \E confirmed \in BOOLEAN : delete_selected_crop(confirmed)

SpecEdit == InitPress /\ [][NextEdit]_vars

\* C11: selecting the value that is selected already (a region or none)
\* changes nothing and emits no selection-changed: a call of select with the
\* selected value leaves selection, handles and regions as they were and
\* emits nothing, a call with another value emits selection-changed once,
\* and from every state two selections of the same value in a row emit it
\* once when the value was not the selected one and never when it was; a
\* press on the body of the selected region, which selects it again, emits
\* nothing either.
C11_IdempotentSelect ==
    [][/\ \A v \in Ids(crops) \cup {NoCrop} :
            LET s1 == set_selected_crop(selected_crop_info, handle_items, crops, v)
                s2 == set_selected_crop(s1.selected, s1.items, s1.crops, v)
            IN  ~s1.raised =>
                  /\ s2 = [s1 EXCEPT !.signals = <<>>]
                  /\ s1.selected = v
                  /\ Len(s1.signals \o s2.signals) = (IF v = selected_crop_info THEN 0 ELSE 1)
       /\ \A v \in Ids(crops) \cup {NoCrop} :
            select(v) =>
                IF v = selected_crop_info THEN signals' = <<>> /\ UNCHANGED <<selVars, crops>>
                ELSE signals' = <<crop_selected_signal(v)>> /\ selected_crop_info' = v
       /\ (mode # MOVING /\ mode' = MOVING /\ interaction_crop_info' = selected_crop_info)
          => (signals' = <<>> /\ UNCHANGED <<selVars, crops>>)]_vars

\* C11, the case: of two regions the older one, selected already, has been
\* selected again by a press on its body: a move has begun, its 4 handles
\* are the ones it had and no signal was emitted.
C11_Witness ==
    /\ Len(crops) = 2 /\ mode = MOVING
    /\ selected_crop_info = crops[1].id /\ interaction_crop_info = crops[1].id
    /\ signals = <<>> /\ Len(handle_items) = 4

\* C12: a pointer-move in Moving or Resizing mode emits regions-changed and
\* no selection-changed and leaves the selection as it is; the press that
\* begins a move or a resize emits selection-changed exactly when it changes
\* which region is selected, and the release that ends it emits nothing.
C12_MoveSignals ==
    [][/\ (/\ mode \in {MOVING, RESIZING}
           /\ \E vp \in ViewPts, sp \in MovePts : mouseMoveEvent(vp, sp))
          => (signals' = <<crops_updated_signal>> /\ UNCHANGED selVars)
       /\ (mode \notin {MOVING, RESIZING} /\ mode' \in {MOVING, RESIZING})
          => /\ signals' \in {<<>>, <<crop_selected_signal(selected_crop_info')>>}
             /\ signals' # <<>> <=> selected_crop_info' # selected_crop_info
       /\ (mode \in {MOVING, RESIZING} /\ mode' = NONE /\ running')
          => (signals' = <<>> /\ UNCHANGED selVars)]_vars

\* C12, the case: with two regions in the collection, a move of the newer
\* one has made a step that changed its geometry: the step emitted
\* regions-changed only and the region is still the selected one.
C12_Witness ==
    /\ Len(crops) = 2 /\ Stepped(MOVING)
    /\ selected_crop_info = crops[2].id /\ interaction_crop_info = crops[2].id
    /\ EditedRect # start_interaction_rect
    /\ signals = <<crops_updated_signal>>

\* C13: in every reachable state with a loaded image, directly after the
\* fit-to-content reset of a load included, the zoom scale lies in
\* [0.05, 100].
C13_ZoomRange ==
    has_image => (ScaleGeq(view_scale, ZoomMinMilli) /\ ScaleLeq(view_scale, ZoomMaxMilli))

\* C14: a zoom request whose result (the scale times the factor 1.15 or
\* 1/1.15) would be below 0.05 or above 100 is ignored: scale, pan offset,
\* regions, id counter, selection, handles and mode are unchanged and nothing
\* is emitted; a request whose result is in the range multiplies the scale
\* by the factor and emits nothing.
C14_ZoomRequest ==
    [][\A up \in BOOLEAN :
         (has_image /\ wheelEvent(up)) =>
            LET requested == [view_scale EXCEPT !.k = IF up THEN @ + 1 ELSE @ - 1]
            IN  /\ signals' = <<>>
                /\ IF ScaleGeq(requested, ZoomMinMilli) /\ ScaleLeq(requested, ZoomMaxMilli)
                   THEN view_scale' = requested
                   ELSE UNCHANGED <<view_scale, pan_offset, crops, next_id, selVars, mode>>]_vars

\* C14, the case: with a region selected and the view panned, the scale has
\* been zoomed in to a value from which the next zoom-in would pass 100, or
\* is so small that the next zoom-out would pass 0.05.
C14_Witness ==
    /\ has_image /\ selected_crop_info # NoCrop /\ pan_offset # <<0, 0>>
    /\ ScaleGeq(view_scale, ZoomMinMilli) /\ ScaleLeq(view_scale, ZoomMaxMilli)
    /\ \/ view_scale.k > 0 /\ ~ScaleLeq([view_scale EXCEPT !.k = @ + 1], ZoomMaxMilli)
       \/ ~ScaleGeq([view_scale EXCEPT !.k = @ - 1], ZoomMinMilli)

\* C15: a confirmed delete request with a region selected leaves the
\* application running with that region removed from the collection, the
\* other regions unchanged, nothing selected, no handle, and a notification
\* emitted; a delete request with nothing selected changes nothing.
C15_DeleteSelected ==
    [][/\ (selected_crop_info # NoCrop /\ delete_selected_crop(TRUE))
          => /\ running'
             /\ Regions(crops') =
                  SelectSeq(Regions(crops), LAMBDA c : c.id # selected_crop_info)
             /\ selected_crop_info' = NoCrop /\ handle_items' = <<>>
             /\ signals' # <<>>
       /\ (selected_crop_info = NoCrop /\ \E confirmed \in BOOLEAN :
                                              delete_selected_crop(confirmed))
          => UNCHANGED <<docVars, selVars, dragVars, viewVars, current_temp_rect_item>>]_vars

\* C16: a load of an image that can be opened and converted, whatever the
\* state before, leaves the image loaded, the collection empty, nothing
\* selected, no handle, the id counter at 1 and the view at the scale that
\* fits the content with no pan offset.
C16_LoadResets ==
    [][open_image("ok", FitScale * 1000) =>
          /\ has_image'
          /\ crops' = <<>> /\ next_id' = 1
          /\ selected_crop_info' = NoCrop /\ handle_items' = <<>>
          /\ view_scale' = [base |-> FitScale * 1000, k |-> 0]
          /\ pan_offset' = <<0, 0>>]_vars

\* C17: a load that fails leaves the collection, the id counter and the
\* selection as they were before the request.
C17_FailedLoadKeepsState ==
    [][(\E outcome \in {"open_fails", "convert_fails"} : open_image(outcome, FitScale * 1000))
          => UNCHANGED <<crops, next_id, selected_crop_info>>]_vars

\* C19: the mode changes to Panning, Resizing, Moving or Drawing only from
\* Idle: no step changes the mode from one of these to another of them.
C19_ModeOnlyFromIdle ==
    [][(mode' # mode /\ mode' # NONE) => mode = NONE]_vars

\* C18: the stored collection is in ascending id order, so the listing
\* (sorted by id) shows the regions in the stored order, and the export, which
\* iterates over the stored collection, visits them and writes their files in
\* ascending id order.
Ascending(ids) == \A i, j \in 1..Len(ids) : i < j => ids[i] < ids[j]
OverHandles(sp) ==
    {i \in 1..Len(handle_items) : handle_hit(crops, handle_items[i], sp, view_scale)}
OverBodies(sp) == {crops[i].id : i \in {k \in 1..Len(crops) : contains(crops[k].rect, sp)}}
C20_PressPriority ==
    [][(mode = NONE /\ has_image) =>
         \A sp \in PressPts, b \in Buttons, alt \in BOOLEAN :
           mousePressEvent(<<0, 0>>, sp, b, alt) =>
             IF b = MiddleButton \/ (b = LeftButton /\ alt)
             THEN mode' = PANNING /\ UNCHANGED <<selVars, crops>>
             ELSE IF b = LeftButton /\ selected_crop_info # NoCrop /\ OverHandles(sp) # {}
             THEN /\ mode' = RESIZING /\ UNCHANGED <<selVars, crops>>
                  /\ active_handle' \in {handle_items[i] : i \in OverHandles(sp)}
                  /\ interaction_crop_info' = selected_crop_info
             ELSE IF b = LeftButton /\ OverBodies(sp) # {}
             THEN /\ mode' = MOVING /\ selected_crop_info' \in OverBodies(sp)
                  /\ interaction_crop_info' = selected_crop_info'
                  /\ Regions(crops') = Regions(crops)
             ELSE IF b = LeftButton /\ contains(img_rect_scene, sp)
             THEN /\ mode' = DRAWING /\ selected_crop_info' = NoCrop /\ handle_items' = <<>>
                  /\ Regions(crops') = Regions(crops)
             ELSE UNCHANGED <<mode, selVars, crops>>]_vars

\* C21: a pointer-move received in Idle mode changes no region's geometry
\* and leaves the collection, the selection, the handle set, the id counter
\* and the mode as they were (the model holds nothing else such a move could
\* change: it emits no regions-changed and no selection-changed either).
C21_IdleMoveFrame ==
    [][(/\ mode = NONE
        /\ \E vp \in ViewPts, sp \in MovePts : mouseMoveEvent(vp, sp))
       => (/\ UNCHANGED <<crops, next_id, selVars, mode>>
           /\ signals' = <<>>)]_vars

\* C21, the case: the mode is Idle with two regions, one selected, and with
\* the region of an interrupted move still recorded by the view; a
\* pointer-move over the image has left all of it as it was.
C21_Witness ==
    /\ mode = NONE /\ has_image /\ buttons_down = {}
    /\ Len(crops) = 2 /\ selected_crop_info = crops[2].id
    /\ interaction_crop_info = crops[2].id
    /\ Len(handle_items) = 4 /\ signals = <<>>

\* C22, as stated: whenever the mode is Moving or Resizing, a pointer-up
\* event, of whatever button, returns the mode to Idle and changes no
\* region's geometry; a middle pointer-up in Panning returns the mode to Idle.
C22_PointerUp ==
    [][/\ (mode \in {MOVING, RESIZING} /\ \E b \in Buttons : mouseReleaseEvent(b))
          => (mode' = NONE /\ Regions(crops') = Regions(crops))
       /\ (mode = PANNING /\ mouseReleaseEvent(MiddleButton)) => mode' = NONE]_vars

\* C22, amended: whenever the mode is Moving or Resizing, a left pointer-up
\* returns the mode to Idle, forgets the edited region and the active
\* handle and changes no region's geometry, and a pointer-up of another
\* button changes neither the mode nor any geometry; a middle pointer-up in
\* Panning returns the mode to Idle.
C22_LeftPointerUp ==
    [][/\ (mode \in {MOVING, RESIZING} /\ mouseReleaseEvent(LeftButton))
          => /\ mode' = NONE /\ interaction_crop_info' = NoCrop /\ active_handle' = NoHandle
             /\ Regions(crops') = Regions(crops)
       /\ (mode \in {MOVING, RESIZING}
             /\ \E b \in Buttons \ {LeftButton} : mouseReleaseEvent(b))
          => (mode' = mode /\ Regions(crops') = Regions(crops))
       /\ (mode = PANNING /\ mouseReleaseEvent(MiddleButton)) => mode' = NONE]_vars

\* C22, the case: of two regions the newer one has been moved away from the
\* corner where it was drawn, and the left button has been released: the
\* mode is Idle, no region is recorded as edited and the region is where
\* the last pointer-move put it.
C22_Witness ==
    /\ mode = NONE /\ buttons_down = {} /\ interaction_crop_info = NoCrop
    /\ Len(crops) = 2 /\ selected_crop_info = crops[2].id
    /\ current_scene_pos # NoPos /\ crops[2].rect.x > 0
    /\ signals = <<>>

\* C23: during one Moving or Resizing gesture made of pointer-moves, the
\* snapshot, the drag start point and the active handle stay as they are,
\* and the region's geometry after each move is a function of these and of
\* the pointer position alone, whatever the geometry was before the move
\* (so two paths that end at the same position give the same geometry); a
\* move that returns the pointer to the point of the press restores the
\* snapshot geometry.
C23_NoDrift ==
    [][LET snap == start_interaction_rect
           at_start == clamped_move_pos(snap, start_scene_pos, current_scene_pos',
                                        img_rect_scene)
       IN  /\ UNCHANGED <<start_interaction_rect, start_scene_pos, active_handle, mode>>
           /\ mode = MOVING =>
                 EditedRect' = Rect(at_start[1], at_start[2], snap.w, snap.h)
           /\ mode = RESIZING =>
                 EditedRect' = calculate_resized_rect(snap, start_scene_pos, current_scene_pos',
                                                      active_handle.position, img_rect_scene)
           /\ (start_scene_pos = press_scene_pos /\ current_scene_pos' = press_scene_pos)
                 => EditedRect' = snap]_vars

\* C23, the case: a resize by a handle whose pointer, after a move that
\* changed the geometry, is at the point of the press again, a point a later
\* move of the gesture can go to: the region has the snapshot geometry.
C23_Witness ==
    /\ Stepped(RESIZING) /\ start_scene_pos = press_scene_pos
    /\ current_scene_pos = press_scene_pos /\ press_scene_pos \in MovePts
    /\ EditedRect = start_interaction_rect
    /\ start_interaction_rect.w > resize_min_size

\* C24: while the mode is Drawing, Moving or Resizing the drag-start point
\* the view works with is the content point of the pointer-down that began
\* the interaction: no other event received during it alters the point.
C24_DragStartStable ==
    mode \in {DRAWING, MOVING, RESIZING} => start_scene_pos = press_scene_pos

\* C25: whenever the mode is Idle no transient interaction state is left:
\* there is no transient draw rectangle, no region is recorded as being
\* edited and no handle is recorded as active.
C25_IdleIsClean ==
    mode = NONE =>
        /\ current_temp_rect_item = NoTemp
        /\ interaction_crop_info = NoCrop
        /\ active_handle = NoHandle

\* C26: whenever the mode is Moving or Resizing the region being edited is
\* a member of the collection and is the selected region, and in Resizing
\* the active handle is one of the current handles, also when a delete
\* request or a selection made in the list arrives during the drag.
C26_EditedIsSelected ==
    mode \in {MOVING, RESIZING} =>
        /\ IsLive(interaction_crop_info)
        /\ interaction_crop_info = selected_crop_info
        /\ mode = RESIZING =>
              \E i \in 1..Len(handle_items) : handle_items[i] = active_handle

\* C27: in every reachable state the selected region, if there is one, is a
\* member of the collection.
C27_SelectionIsMember ==
    selected_crop_info # NoCrop => IsLive(selected_crop_info)

\* C28: a pointer-move in Panning and any wheel zoom request leave every
\* region's geometry, the collection, the id counter and the selection
\* (with its handles) unchanged and emit neither regions-changed nor
\* selection-changed.
C28_ViewOnly ==
    [][/\ (/\ mode = PANNING
           /\ \E vp \in ViewPts, sp \in MovePts : mouseMoveEvent(vp, sp))
          => (UNCHANGED <<crops, next_id, selVars>> /\ signals' = <<>>)
       /\ (\E up \in BOOLEAN : wheelEvent(up))
          => (UNCHANGED <<crops, next_id, selVars>> /\ signals' = <<>>)]_vars

\* C28, the case: with two regions, the newer one selected, the view has
\* been zoomed and a pan has made a step; the regions, the selection and its
\* 4 handles are there and nothing was emitted.
C28_Witness ==
    /\ mode = PANNING /\ pan_offset # <<0, 0>> /\ view_scale.k # 0
    /\ Len(crops) = 2 /\ selected_crop_info = crops[2].id
    /\ Len(handle_items) = 4 /\ next_id = 3
    /\ signals = <<>>

TypeOK ==
    /\ running \in BOOLEAN
    /\ mode \in InteractionMode
    /\ Len(crops) <= MaxCrops

====
